---- MODULE Spec2Model ----
(***************************************************************************)
(* Model of the RAII wrappers of boni.hpp, espeak-ng.hpp and sdl2.hpp and  *)
(* of the demo program main.cpp.                                           *)
(*                                                                         *)
(* SpecOwner : boni::auto_handle (a std::unique_ptr over a boni deleter)   *)
(*             driven through every owner operation.                       *)
(* SpecDemo  : main() of main.cpp, every library call returning either     *)
(*             success or failure, with the synthesis callback.            *)
(* SpecNullable : boni::nullable constructed, converted and compared for   *)
(*             every sentinel.                                             *)
(* SpecCallback : SynthCallback of main.cpp called once on its own.        *)
(***************************************************************************)
EXTENDS Integers, Sequences, FiniteSets, TLC

\* ------------------------------------------------------------------ bounds
NumSlots == 2      \* owner objects that can be alive at once
MaxHandle == 2     \* distinct non-empty handle values the libraries issue
MaxCalls == 2      \* recorded calls of the release function
MaxStatus == 1     \* espeak_ng_STATUS values are 0..MaxStatus
MaxDevice == 1     \* SDL_OpenAudioDevice returns 0..MaxDevice
MaxCallbacks == 2  \* callback invocations during one espeak_ng_Synthesize
MaxSamples == 1    \* numsamples given to the callback is 0..MaxSamples
MaxEvents == 1     \* events before the terminator of a callback's list
MaxValue == 4      \* raw values and sentinels of a nullable are 0..MaxValue

\* ------------------------------------------------------- program constants
NullHandle == 0    \* handle_type{} : the default null_value of nullable
ENS_OK == 0        \* the espeak_ng_STATUS of success
espeakEVENT_LIST_TERMINATED == 0
espeakEVENT_WORD == 1
espeakEVENT_SAMPLERATE == 8
AudioDeviceAddress == 1   \* &audio_device, the user_data given to Synthesize
SynthCallbackReturnValue == 0   \* `return 0;` : synthesis should continue

Slots == 1..NumSlots
Handles == 1..MaxHandle
DeleterKinds == {"nullable_deleter", "unsafe_handle_deleter"}

VARIABLES
  kind,         \* which deleter_type the auto_handle is instantiated over
  owners,       \* Slots -> [live, ptr] : the auto_handle objects
  calls,        \* arguments destroy_function has been called with, in order
  next_handle,  \* next handle value an acquisition call returns
  loose,        \* raw handles given back to the caller by release()
  direct,       \* raw handles the caller passed to the deleter itself
  last_op,      \* the operation performed last: [op, slot, src, arg, given]
                \*   arg = handle the owner held before, given = handle passed
  moved,        \* handles that have been transferred by a move
  \* ---- main()
  pc,           \* position in main()
  trace,        \* library calls and throws so far: [fn, arg, ret, len]
  frames,       \* automatic objects alive, in order of construction
  audio_device, \* the pointer main's sdl2::audio_device stores
  data,         \* error_context::data of service()'s initialisation_error
  status,       \* the `status` local of the block being executed
  callbacks,    \* callback invocations made by espeak_ng_Synthesize so far
  unwinds,      \* the build unwinds the stack when no handler is found
  \* ---- functions applied on their own
  nb,           \* a boni::nullable<handle_type, null_value> and what it answers
  cb            \* one call of SynthCallback: its arguments and what it did

owner_vars == <<kind, owners, calls, next_handle, loose, direct, last_op, moved>>
demo_vars == <<pc, trace, frames, audio_device, data, status, callbacks, unwinds>>
pure_vars == <<nb, cb>>
vars == <<kind, owners, calls, next_handle, loose, direct, last_op, moved,
          pc, trace, frames, audio_device, data, status, callbacks, unwinds,
          nb, cb>>

\* ------------------------------------------------------ boni::nullable
nullable_default(null_value) == [value |-> null_value]
nullable_nullptr(null_value) == nullable_default(null_value)
nullable_from(new_value) == [value |-> new_value]
\* the mutation: the test is against handle_type{} instead of null_value
nullable_bool_against_zero(n, null_value) == n.value /= NullHandle
nullable_bool(n, null_value) == n.value /= null_value
nullable_handle(n) == n.value
nullable_eq(left, right) == nullable_handle(left) = nullable_handle(right)
\* the mutation: operator!= that forgets the negation
nullable_ne_unnegated(left, right) == nullable_eq(left, right)
nullable_ne(left, right) == ~nullable_eq(left, right)

\* ----------------------------------------------------- boni deleters
\* TRUE iff operator() forwards its argument to destroy_function.
nullable_deleter_forwards(pointer_to_delete) ==
  nullable_eq(pointer_to_delete, nullable_default(NullHandle))
unsafe_handle_deleter_forwards(handle_to_delete) ==
  handle_to_delete = NullHandle

\* ------------------------------------- deleter_type::pointer, per deleter
pointer_null(k) ==
  IF k = "nullable_deleter" THEN nullable_nullptr(NullHandle) ELSE NullHandle
pointer_from(k, h) ==
  IF k = "nullable_deleter" THEN nullable_from(h) ELSE h
\* `p != nullptr` on deleter_type::pointer, the test of ~unique_ptr()
pointer_ne_nullptr(k, p) ==
  IF k = "nullable_deleter" THEN nullable_ne(p, nullable_nullptr(NullHandle))
  ELSE p /= NullHandle
\* `if (p)` on deleter_type::pointer, the test of unique_ptr::reset()
pointer_bool(k, p) ==
  IF k = "nullable_deleter" THEN nullable_bool(p, NullHandle)
  ELSE p /= NullHandle
deleter_forwards(k, p) ==
  IF k = "nullable_deleter" THEN nullable_deleter_forwards(p)
  ELSE unsafe_handle_deleter_forwards(p)
\* auto_handle::operator handle_type : parent_type::get() converted
\* the mutation: the conversion goes through operator bool
to_handle_via_bool(k, p) == IF pointer_bool(k, p) THEN 1 ELSE 0
to_handle(k, p) ==
  IF k = "nullable_deleter" THEN nullable_handle(p) ELSE p

\* the release-function log after deleter_type()(p)
deleter_call(k, p, log) ==
  IF deleter_forwards(k, p) THEN Append(log, to_handle(k, p)) ELSE log

\* ------------------------------- auto_handle : the inherited unique_ptr
\* the mutation: release() that hands out the pointer and keeps it too
unique_ptr_release_keeps(k, p) == p
\* the pointer the owner is left with by release()
unique_ptr_release(k, p) == pointer_null(k)
\* the log after ~unique_ptr() of an owner holding p
unique_ptr_dtor(k, p, log) ==
  IF pointer_ne_nullptr(k, p) THEN deleter_call(k, p, log) ELSE log
\* the log after reset() has replaced the old pointer p
unique_ptr_reset(k, p, log) ==
  IF pointer_bool(k, p) THEN deleter_call(k, p, log) ELSE log

Dead(k) == [live |-> FALSE, ptr |-> pointer_null(k)]
Held(s) == to_handle(kind, owners[s].ptr)

\* handles the caller may hand to an owner: a freshly acquired one, one it
\* got back from release(), or the sentinel (a failed acquisition)
Acquirable ==
  {NullHandle} \cup loose
    \cup (IF next_handle <= MaxHandle THEN {next_handle} ELSE {})
Acquire(h) ==
  /\ next_handle' = IF h = next_handle THEN next_handle + 1 ELSE next_handle
  /\ loose' = loose \ {h}

\* the variables of the functions applied on their own, while unused
NullableIdle == nb = [how |-> "idle"]
CallbackIdle == cb = [applied |-> FALSE]

\* the variables of main() while only the owner is exercised
DemoIdle ==
  /\ pc = "idle"
  /\ trace = <<>>
  /\ frames = <<>>
  /\ audio_device = nullable_default(NullHandle)
  /\ data = 0
  /\ status = ENS_OK
  /\ callbacks = 0
  /\ unwinds = FALSE

InitOwner ==
  /\ kind \in DeleterKinds
  /\ owners = [s \in Slots |-> Dead(kind)]
  /\ calls = <<>>
  /\ next_handle = 1
  /\ loose = {}
  /\ direct = {}
  /\ last_op = [op |-> "none", slot |-> 0, src |-> 0, arg |-> NullHandle,
                given |-> NullHandle]
  /\ moved = {}
  /\ DemoIdle
  /\ NullableIdle
  /\ CallbackIdle

\* auto_handle() : empty owner
DefaultConstruct(s) ==
  /\ ~owners[s].live
  /\ owners' = [owners EXCEPT ![s] = [live |-> TRUE, ptr |-> pointer_null(kind)]]
  /\ last_op' = [op |-> "default", slot |-> s, src |-> 0, arg |-> NullHandle,
                given |-> NullHandle]
  /\ UNCHANGED <<kind, calls, next_handle, loose, direct, moved>>
  /\ UNCHANGED demo_vars
  /\ UNCHANGED pure_vars

\* auto_handle{h}
ConstructFrom(s, h) ==
  /\ ~owners[s].live
  /\ h \in Acquirable
  /\ Acquire(h)
  /\ owners' = [owners EXCEPT ![s] = [live |-> TRUE, ptr |-> pointer_from(kind, h)]]
  /\ last_op' = [op |-> "construct", slot |-> s, src |-> 0, arg |-> NullHandle,
                given |-> h]
  /\ UNCHANGED <<kind, calls, direct, moved>>
  /\ UNCHANGED demo_vars
  /\ UNCHANGED pure_vars

\* auto_handle d{std::move(s)}
MoveConstruct(d, s) ==
  /\ d /= s
  /\ ~owners[d].live
  /\ owners[s].live
  /\ owners' = [owners EXCEPT
       ![s].ptr = unique_ptr_release(kind, owners[s].ptr),
       ![d] = [live |-> TRUE, ptr |-> owners[s].ptr]]
  /\ last_op' = [op |-> "move_construct", slot |-> d, src |-> s,
                arg |-> NullHandle, given |-> Held(s)]
  /\ moved' = moved \cup ({Held(s)} \ {NullHandle})
  /\ UNCHANGED <<kind, calls, next_handle, loose, direct>>
  /\ UNCHANGED demo_vars
  /\ UNCHANGED pure_vars

\* d = std::move(s) : d.reset(s.release())
MoveAssign(d, s) ==
  /\ owners[d].live
  /\ owners[s].live
  /\ LET taken == owners[s].ptr
         o1 == [owners EXCEPT ![s].ptr = unique_ptr_release(kind, owners[s].ptr)]
         old == o1[d].ptr
     IN /\ owners' = [o1 EXCEPT ![d].ptr = taken]
        /\ calls' = unique_ptr_reset(kind, old, calls)
        /\ last_op' = [op |-> "move_assign", slot |-> d, src |-> s,
                       arg |-> to_handle(kind, old),
                       given |-> to_handle(kind, taken)]
        /\ moved' = moved \cup ({to_handle(kind, taken)} \ {NullHandle})
  /\ UNCHANGED <<kind, next_handle, loose, direct>>
  /\ UNCHANGED demo_vars
  /\ UNCHANGED pure_vars

\* s.reset(h)
Reset(s, h) ==
  /\ owners[s].live
  /\ h \in Acquirable
  /\ Acquire(h)
  /\ owners' = [owners EXCEPT ![s].ptr = pointer_from(kind, h)]
  /\ calls' = unique_ptr_reset(kind, owners[s].ptr, calls)
  /\ last_op' = [op |-> "reset", slot |-> s, src |-> 0, arg |-> Held(s),
                given |-> h]
  /\ UNCHANGED <<kind, direct, moved>>
  /\ UNCHANGED demo_vars
  /\ UNCHANGED pure_vars

\* s.release()
Release(s) ==
  /\ owners[s].live
  /\ owners' = [owners EXCEPT ![s].ptr = unique_ptr_release(kind, owners[s].ptr)]
  /\ loose' = loose \cup ({Held(s)} \ {NullHandle})
  /\ last_op' = [op |-> "release", slot |-> s, src |-> 0, arg |-> Held(s),
                given |-> NullHandle]
  /\ UNCHANGED <<kind, calls, next_handle, direct, moved>>
  /\ UNCHANGED demo_vars
  /\ UNCHANGED pure_vars

\* ~auto_handle()
Destroy(s) ==
  /\ owners[s].live
  /\ owners' = [owners EXCEPT ![s] = Dead(kind)]
  /\ calls' = unique_ptr_dtor(kind, owners[s].ptr, calls)
  /\ last_op' = [op |-> "destroy", slot |-> s, src |-> 0, arg |-> Held(s),
                given |-> NullHandle]
  /\ UNCHANGED <<kind, next_handle, loose, direct, moved>>
  /\ UNCHANGED demo_vars
  /\ UNCHANGED pure_vars

\* deleter_type()(h) called by hand
DeleterDirect(h) ==
  /\ h \in {NullHandle} \cup loose
  /\ Len(calls) < MaxCalls
  /\ calls' = deleter_call(kind, pointer_from(kind, h), calls)
  /\ loose' = loose \ {h}
  /\ direct' = direct \cup ({h} \ {NullHandle})
  /\ last_op' = [op |-> "deleter", slot |-> 0, src |-> 0, arg |-> NullHandle,
                given |-> h]
  /\ UNCHANGED <<kind, owners, next_handle, moved>>
  /\ UNCHANGED demo_vars
  /\ UNCHANGED pure_vars

NextOwner ==
  \/ \E s \in Slots : DefaultConstruct(s)
  \/ \E s \in Slots, h \in 0..MaxHandle : ConstructFrom(s, h)
  \/ \E d \in Slots, s \in Slots : MoveConstruct(d, s)
  \/ \E d \in Slots, s \in Slots : MoveAssign(d, s)
  \/ \E s \in Slots, h \in 0..MaxHandle : Reset(s, h)
  \/ \E s \in Slots : Release(s)
  \/ \E s \in Slots : Destroy(s)
  \/ \E h \in 0..MaxHandle : DeleterDirect(h)

SpecOwner == InitOwner /\ [][NextOwner]_vars

\* ====================================================== claims, SpecOwner
Count(h, log) == Cardinality({i \in DOMAIN log : log[i] = h})
LiveHolders(h) == {s \in Slots : owners[s].live /\ Held(s) = h}
\* h was handed to an owner and no owner nor the caller has it any more
Relinquished(h) ==
  /\ h < next_handle
  /\ LiveHolders(h) = {}
  /\ h \notin loose
  /\ h \notin direct

\* C1: every non-empty handle an owner held and then dropped (by being
\* destroyed, reset or move-assigned over) has been passed to the release
\* function exactly once, and a handle still held has not been passed yet.
C1_ReleasedExactlyOnce ==
  \A h \in Handles :
    /\ Relinquished(h) => Count(h, calls) = 1
    /\ LiveHolders(h) /= {} => Count(h, calls) = 0

\* C2: a direct call of the deleter with the null handle leaves the release
\* function uncalled.
C2_NullNeverForwarded ==
  [][(last_op'.op = "deleter" /\ last_op'.given = NullHandle)
       => calls' = calls]_vars

\* C3: destroying an owner that holds the empty value does not call the
\* release function.
C3_EmptyDestroyReleasesNothing ==
  [][(last_op'.op = "destroy" /\ last_op'.arg = NullHandle)
       => calls' = calls]_vars
C3_Witness ==
  /\ last_op.op = "destroy"
  /\ last_op.arg = NullHandle
  /\ moved /= {}
  /\ calls = <<>>

\* C4: a move leaves the handle in the destination and the source empty, and
\* a moved handle that no owner holds any more was released exactly once.
C4_MoveThenReleasedOnce ==
  /\ (last_op.op \in {"move_construct", "move_assign"}
        /\ last_op.slot /= last_op.src)
       => /\ Held(last_op.slot) = last_op.given
          /\ Held(last_op.src) = NullHandle
  /\ \A h \in moved : Relinquished(h) => Count(h, calls) = 1

\* C5: no two live owners hold the same non-empty handle.
C5_UniqueOwnership ==
  \A h \in Handles : Cardinality(LiveHolders(h)) <= 1
C5_Witness ==
  /\ last_op.op = "move_assign"
  /\ last_op.given /= NullHandle
  /\ last_op.slot /= last_op.src
  /\ owners[last_op.src].live
  /\ LiveHolders(last_op.given) = {last_op.slot}

\* ================================================================ main()
K == "nullable_deleter"    \* sdl2::audio_device_deleter is a nullable_deleter

Ev(fn, arg, ret, len) == [fn |-> fn, arg |-> arg, ret |-> ret, len |-> len]
Call(fn, ret) == Ev(fn, 0, ret, 0)
\* std::fprintf(stderr, ...) of a progress line, named by its line in main.cpp
Progress(line) == Ev("fprintf", line, 0, 0)
Statuses == 0..MaxStatus
SdlResults == {0, -1}
DeviceIds == 0..MaxDevice

\* espeak_ng::throw_if_not_ok : TRUE iff it throws
\* the mutation: the test of the status inverted
throw_if_not_ok_inverted(code_to_check) == code_to_check = ENS_OK
\* the mutation: the status is not looked at and nothing is thrown
throw_if_not_ok_never(code_to_check) == FALSE
throw_if_not_ok(code_to_check) == code_to_check /= ENS_OK
\* the calls throw_if_not_ok makes
\* the mutation: the throw without the message
throw_if_not_ok_trace_silent(code_to_check, current_error_context) ==
  IF throw_if_not_ok(code_to_check) THEN <<Call("throw", 0)>> ELSE <<>>
throw_if_not_ok_trace(code_to_check, current_error_context) ==
  IF throw_if_not_ok(code_to_check)
  THEN <<Ev("espeak_ng_PrintStatusCodeMessage", current_error_context,
            code_to_check, 0),
         Call("throw", 0)>>
  ELSE <<>>

\* sdl2::throw_if : TRUE iff it throws
\* the mutation: the condition is ignored and nothing is thrown
throw_if_never(is_throwing) == FALSE
\* the mutation: the condition is taken the wrong way round
throw_if_inverted(is_throwing) == ~is_throwing
throw_if(is_throwing) == is_throwing
throw_if_trace(is_throwing) ==
  IF throw_if(is_throwing)
  THEN <<Call("SDL_GetError", 0), Call("throw", 0)>>
  ELSE <<>>

\* ~error_context()
error_context_dtor(d) == <<Ev("espeak_ng_ClearErrorContext", d, 0, 0)>>

\* the calls of SDL_CloseAudioDevice a deleter log stands for
CloseEvents(log) ==
  [i \in DOMAIN log |-> Ev("SDL_CloseAudioDevice", log[i], 0, 0)]

\* ------------------------------------------------------- SynthCallback
EventTypes == espeakEVENT_WORD..espeakEVENT_SAMPLERATE
\* the event arrays espeak hands over: a terminated list, every entry
\* carrying the user_data of the synthesis call
EventLists(user_data) ==
  LET entry(t) == [type |-> t, user_data |-> user_data]
      real == {entry(t) : t \in EventTypes}
  IN {Append(pre, entry(espeakEVENT_LIST_TERMINATED)) :
        pre \in UNION {[1..n -> real] : n \in 0..MaxEvents}}

\* the mutation: the loop does not advance, the first entry is taken
ScanStaysAtFirst(events, i) == i
RECURSIVE ScanToTerminator(_, _)
ScanToTerminator(events, i) ==
  IF events[i].type = espeakEVENT_LIST_TERMINATED THEN i
  ELSE ScanToTerminator(events, i + 1)

\* TRUE iff the callback reaches SDL_QueueAudio
SynthCallbackQueues(wav, numsamples, events) ==
  LET event == events[ScanToTerminator(events, 1)]
  IN wav /= 0 /\ numsamples /= 0 /\ event.user_data /= 0

\* the calls one invocation of the callback makes; device is the handle the
\* owner user_data points at converts to, queue_result what SDL_QueueAudio
\* returns
SynthCallback(wav, numsamples, events, device, queue_result) ==
  IF SynthCallbackQueues(wav, numsamples, events)
  THEN <<Ev("SDL_QueueAudio", device, queue_result, numsamples * 2)>>
         \o throw_if_trace(0 /= queue_result)
  ELSE <<>>

\* ------------------------------------------------------------ statements
OwnerIdle ==
  /\ kind = K
  /\ owners = [s \in Slots |-> Dead(K)]
  /\ calls = <<>>
  /\ next_handle = 1
  /\ loose = {}
  /\ direct = {}
  /\ last_op = [op |-> "none", slot |-> 0, src |-> 0, arg |-> NullHandle,
                given |-> NullHandle]
  /\ moved = {}

InitDemo ==
  /\ OwnerIdle
  /\ pc = "start"
  /\ trace = <<>>
  /\ frames = <<>>
  /\ audio_device = nullable_default(NullHandle)
  /\ data = 0
  /\ status = ENS_OK
  /\ callbacks = 0
  /\ unwinds \in BOOLEAN
  /\ NullableIdle
  /\ CallbackIdle

Throws(evs) == evs /= <<>> /\ evs[Len(evs)].fn = "throw"

\* the statement makes the calls evs and control goes on at next, or to the
\* search for a handler when the last of them is a throw
Step(next, evs) ==
  /\ trace' = trace \o evs
  /\ pc' = IF Throws(evs) THEN "thrown" ELSE next

\* main.cpp 66-70
Start ==
  /\ pc = "start"
  /\ Step("service", <<Progress(66), Call("espeak_ng_InitializePath", 0)>>)
  /\ UNCHANGED <<frames, audio_device, data, status, callbacks, unwinds>>
  /\ UNCHANGED owner_vars
  /\ UNCHANGED pure_vars

\* main.cpp 71 : espeak_ng::service::service()
EspeakServiceCtor ==
  /\ pc = "service"
  /\ \E st \in Statuses, ctx \in 0..1 :
       /\ st = ENS_OK => ctx = 0
       /\ LET init == Ev("espeak_ng_Initialize", 0, st, 0)
              check == throw_if_not_ok_trace(st, ctx)
          IN IF Throws(check)
             THEN /\ Step("init_output", <<init>> \o check)
                  /\ frames' = Append(frames, "initialisation_error")
                  /\ data' = ctx
             ELSE /\ Step("init_output", <<init>> \o error_context_dtor(ctx))
                  /\ frames' = Append(frames, "service")
                  /\ data' = 0
  /\ UNCHANGED <<audio_device, status, callbacks, unwinds>>
  /\ UNCHANGED owner_vars
  /\ UNCHANGED pure_vars

\* main.cpp 73-80
InitializeOutput ==
  /\ pc = "init_output"
  /\ \E st \in Statuses :
       /\ status' = st
       /\ Step("sample_rate", <<Progress(74),
                                Call("espeak_ng_InitializeOutput", st)>>
                                \o throw_if_not_ok_trace(st, 0))
  /\ UNCHANGED <<frames, audio_device, data, callbacks, unwinds>>
  /\ UNCHANGED owner_vars
  /\ UNCHANGED pure_vars

\* main.cpp 82-83
GetSampleRate ==
  /\ pc = "sample_rate"
  /\ Step("audio_service", <<Progress(82),
                             Call("espeak_ng_GetSampleRate", 0)>>)
  /\ UNCHANGED <<frames, audio_device, data, status, callbacks, unwinds>>
  /\ UNCHANGED owner_vars
  /\ UNCHANGED pure_vars

\* main.cpp 85-86 : sdl2::service::service(SDL_INIT_AUDIO)
SdlServiceCtor ==
  /\ pc = "audio_service"
  /\ \E r \in SdlResults :
       LET evs == <<Progress(85), Call("SDL_SetMainReady", 0),
                    Call("SDL_Init", r)>>
                    \o throw_if_trace(0 /= r)
       IN /\ Step("declare_device", evs)
          /\ frames' = IF Throws(evs) THEN frames
                       ELSE Append(frames, "audio_service")
  /\ UNCHANGED <<audio_device, data, status, callbacks, unwinds>>
  /\ UNCHANGED owner_vars
  /\ UNCHANGED pure_vars

\* main.cpp 88
DeclareDevice ==
  /\ pc = "declare_device"
  /\ audio_device' = pointer_null(K)
  /\ frames' = Append(frames, "audio_device")
  /\ Step("open_device", <<>>)
  /\ UNCHANGED <<data, status, callbacks, unwinds>>
  /\ UNCHANGED owner_vars
  /\ UNCHANGED pure_vars

\* main.cpp 90-99 : audio_device = sdl2::audio_device{SDL_OpenAudioDevice()}
OpenDevice ==
  /\ pc = "open_device"
  /\ \E id \in DeviceIds :
       LET temp == pointer_from(K, id)
           temp_left == unique_ptr_release(K, temp)
           replaced == unique_ptr_reset(K, audio_device, <<>>)
           dropped == unique_ptr_dtor(K, temp_left, replaced)
       IN /\ audio_device' = temp
          /\ Step("check_device", <<Ev("SDL_OpenAudioDevice", 0, id, 0)>>
                                    \o CloseEvents(dropped))
  /\ UNCHANGED <<frames, data, status, callbacks, unwinds>>
  /\ UNCHANGED owner_vars
  /\ UNCHANGED pure_vars

\* main.cpp 100
CheckDevice ==
  /\ pc = "check_device"
  /\ Step("set_callback",
          throw_if_trace(nullable_eq(nullable_nullptr(NullHandle),
                                     audio_device)))
  /\ UNCHANGED <<frames, audio_device, data, status, callbacks, unwinds>>
  /\ UNCHANGED owner_vars
  /\ UNCHANGED pure_vars

\* main.cpp 103-104
SetSynthCallback ==
  /\ pc = "set_callback"
  /\ Step("synthesize", <<Progress(103),
                          Call("espeak_SetSynthCallback", 0)>>)
  /\ UNCHANGED <<frames, audio_device, data, status, callbacks, unwinds>>
  /\ UNCHANGED owner_vars
  /\ UNCHANGED pure_vars

\* main.cpp 107-112 : espeak_ng_Synthesize is entered
SynthesizeEnter ==
  /\ pc = "synthesize"
  /\ Step("synthesizing",
          <<Progress(107),
            Ev("espeak_ng_Synthesize:enter", AudioDeviceAddress, 0, 0)>>)
  /\ callbacks' = 0
  /\ UNCHANGED <<frames, audio_device, data, status, unwinds>>
  /\ UNCHANGED owner_vars
  /\ UNCHANGED pure_vars

\* main.cpp 34-63 : espeak calls SynthCallback from inside Synthesize
CallbackInvoke ==
  /\ pc = "synthesizing"
  /\ callbacks < MaxCallbacks
  /\ callbacks' = callbacks + 1
  /\ \E wav \in 0..1, numsamples \in 0..MaxSamples,
        events \in EventLists(AudioDeviceAddress), r \in SdlResults :
       Step("synthesizing",
            SynthCallback(wav, numsamples, events,
                          to_handle(K, audio_device), r))
  /\ UNCHANGED <<frames, audio_device, data, status, unwinds>>
  /\ UNCHANGED owner_vars
  /\ UNCHANGED pure_vars

\* main.cpp 109-112 : espeak_ng_Synthesize returns
SynthesizeReturn ==
  /\ pc = "synthesizing"
  /\ \E st \in Statuses :
       /\ status' = st
       /\ Step("pause", <<Call("espeak_ng_Synthesize", st)>>)
  /\ UNCHANGED <<frames, audio_device, data, callbacks, unwinds>>
  /\ UNCHANGED owner_vars
  /\ UNCHANGED pure_vars

\* main.cpp 113
PauseAudioDevice ==
  /\ pc = "pause"
  /\ Step("check_synth",
          <<Ev("SDL_PauseAudioDevice", to_handle(K, audio_device), 0, 0)>>)
  /\ UNCHANGED <<frames, audio_device, data, status, callbacks, unwinds>>
  /\ UNCHANGED owner_vars
  /\ UNCHANGED pure_vars

\* main.cpp 114
CheckSynthesize ==
  /\ pc = "check_synth"
  /\ Step("synchronize", throw_if_not_ok_trace(status, 0))
  /\ UNCHANGED <<frames, audio_device, data, status, callbacks, unwinds>>
  /\ UNCHANGED owner_vars
  /\ UNCHANGED pure_vars

\* main.cpp 117-121
Synchronize ==
  /\ pc = "synchronize"
  /\ \E st \in Statuses :
       /\ status' = st
       /\ Step("delay", <<Progress(118), Call("espeak_ng_Synchronize", st)>>
                          \o throw_if_not_ok_trace(st, 0))
  /\ UNCHANGED <<frames, audio_device, data, callbacks, unwinds>>
  /\ UNCHANGED owner_vars
  /\ UNCHANGED pure_vars

\* main.cpp 122-123
Delay ==
  /\ pc = "delay"
  /\ Step("returning", <<Progress(122), Ev("SDL_Delay", 1500, 0, 0)>>)
  /\ UNCHANGED <<frames, audio_device, data, status, callbacks, unwinds>>
  /\ UNCHANGED owner_vars
  /\ UNCHANGED pure_vars

\* ------------------------------------------------- leaving main()
\* main() has no try block: whether the stack is unwound before
\* std::terminate() is the build's choice
NoHandler ==
  /\ pc = "thrown"
  /\ pc' = IF unwinds THEN "unwinding" ELSE "terminated"
  /\ UNCHANGED <<trace, frames, audio_device, data, status, callbacks, unwinds>>
  /\ UNCHANGED owner_vars
  /\ UNCHANGED pure_vars

Leaving == pc \in {"returning", "unwinding"}
Top == frames[Len(frames)]
Pop == frames' = SubSeq(frames, 1, Len(frames) - 1)

\* ~auto_handle() of main's audio_device
AudioDeviceDtor ==
  /\ Leaving /\ frames /= <<>> /\ Top = "audio_device"
  /\ Pop
  /\ trace' = trace \o CloseEvents(unique_ptr_dtor(K, audio_device, <<>>))
  /\ audio_device' = pointer_null(K)
  /\ UNCHANGED <<pc, data, status, callbacks, unwinds>>
  /\ UNCHANGED owner_vars
  /\ UNCHANGED pure_vars

\* sdl2::service::~service()
SdlServiceDtor ==
  /\ Leaving /\ frames /= <<>> /\ Top = "audio_service"
  /\ Pop
  /\ trace' = Append(trace, Call("SDL_Quit", 0))
  /\ UNCHANGED <<pc, audio_device, data, status, callbacks, unwinds>>
  /\ UNCHANGED owner_vars
  /\ UNCHANGED pure_vars

\* espeak_ng::service::~service()
EspeakServiceDtor ==
  /\ Leaving /\ frames /= <<>> /\ Top = "service"
  /\ Pop
  /\ trace' = Append(trace, Call("espeak_ng_Terminate", 0))
  /\ UNCHANGED <<pc, audio_device, data, status, callbacks, unwinds>>
  /\ UNCHANGED owner_vars
  /\ UNCHANGED pure_vars

\* ~error_context() of a service() that threw
ErrorContextDtor ==
  /\ Leaving /\ frames /= <<>> /\ Top = "initialisation_error"
  /\ Pop
  /\ trace' = trace \o error_context_dtor(data)
  /\ data' = 0
  /\ UNCHANGED <<pc, audio_device, status, callbacks, unwinds>>
  /\ UNCHANGED owner_vars
  /\ UNCHANGED pure_vars

\* every automatic object is gone: main returns, or std::terminate() runs
Finish ==
  /\ Leaving /\ frames = <<>>
  /\ pc' = IF pc = "returning" THEN "exited" ELSE "terminated"
  /\ UNCHANGED <<trace, frames, audio_device, data, status, callbacks, unwinds>>
  /\ UNCHANGED owner_vars
  /\ UNCHANGED pure_vars

NextDemo ==
  \/ Start
  \/ EspeakServiceCtor
  \/ InitializeOutput
  \/ GetSampleRate
  \/ SdlServiceCtor
  \/ DeclareDevice
  \/ OpenDevice
  \/ CheckDevice
  \/ SetSynthCallback
  \/ SynthesizeEnter
  \/ CallbackInvoke
  \/ SynthesizeReturn
  \/ PauseAudioDevice
  \/ CheckSynthesize
  \/ Synchronize
  \/ Delay
  \/ NoHandler
  \/ AudioDeviceDtor
  \/ SdlServiceDtor
  \/ EspeakServiceDtor
  \/ ErrorContextDtor
  \/ Finish

SpecDemo == InitDemo /\ [][NextDemo]_vars

\* ======================================================= claims, SpecDemo
Idx(fn) == {i \in DOMAIN trace : trace[i].fn = fn}
N(fn) == Cardinality(Idx(fn))
Succeeded(fn) == \E i \in Idx(fn) : trace[i].ret = 0
Failed(fn) == \E i \in Idx(fn) : trace[i].ret /= 0
Opened == \E i \in Idx("SDL_OpenAudioDevice") : trace[i].ret /= NullHandle
Final == pc \in {"exited", "terminated"}
Raised == pc \in {"thrown", "unwinding", "terminated"}
FnAt(i) == IF i \in DOMAIN trace THEN trace[i].fn ELSE "nothing"

\* C6: when main() is over, a subsystem whose initializer succeeded has had
\* its terminator called exactly once, whether main() returned or threw.
C6_TerminatorOnceAfterInit ==
  Final =>
    /\ Succeeded("espeak_ng_Initialize") => N("espeak_ng_Terminate") = 1
    /\ Succeeded("SDL_Init") => N("SDL_Quit") = 1

\* C7: a failed initializer makes the constructor throw (diagnostic, then
\* throw, right after the call) and the terminator or closer of that
\* subsystem is never called.
C7_FailedInitNoTerminator ==
  /\ \A i \in Idx("espeak_ng_Initialize") :
       trace[i].ret /= ENS_OK =>
         /\ FnAt(i + 2) = "throw"
         /\ Raised
         /\ N("espeak_ng_Terminate") = 0
  /\ \A i \in Idx("SDL_Init") :
       trace[i].ret /= 0 =>
         /\ FnAt(i + 2) = "throw"
         /\ Raised
         /\ N("SDL_Quit") = 0
         /\ N("SDL_CloseAudioDevice") = 0
C7_Witness ==
  /\ pc = "terminated"
  /\ unwinds
  /\ Failed("SDL_Init")
  /\ N("espeak_ng_Terminate") = 1
  /\ N("SDL_Quit") = 0

\* C8: when main() is over, what was acquired has been released in reverse
\* order: the opened device closed, then SDL_Quit, then espeak_ng_Terminate.
ReleaseFns == {"SDL_CloseAudioDevice", "SDL_Quit", "espeak_ng_Terminate"}
IsRelease(e) == e.fn \in ReleaseFns
Releases ==
  LET r == SelectSeq(trace, IsRelease) IN [i \in DOMAIN r |-> r[i].fn]
ExpectedReleases ==
  (IF Opened THEN <<"SDL_CloseAudioDevice">> ELSE <<>>)
    \o (IF Succeeded("SDL_Init") THEN <<"SDL_Quit">> ELSE <<>>)
    \o (IF Succeeded("espeak_ng_Initialize") THEN <<"espeak_ng_Terminate">>
        ELSE <<>>)
C8_ReverseOrderRelease == Final => Releases = ExpectedReleases

\* C9: once service() has been left, on success or by a throw, the error
\* context has been cleared exactly once, and after a failure only after
\* the diagnostic and the throw.
C9_ErrorContextClearedOnce ==
  /\ N("espeak_ng_ClearErrorContext") <= 1
  /\ Succeeded("espeak_ng_Initialize") => N("espeak_ng_ClearErrorContext") = 1
  /\ (Failed("espeak_ng_Initialize") /\ Final)
       => N("espeak_ng_ClearErrorContext") = 1
  /\ \A i \in Idx("espeak_ng_ClearErrorContext") :
       Failed("espeak_ng_Initialize") =>
         /\ \E j \in Idx("espeak_ng_PrintStatusCodeMessage") : j < i
         /\ \E j \in Idx("throw") : j < i

\* C10: a failing acquisition call is followed at once by the raise (the
\* diagnostic of the throwing helper, then the throw), no library call in
\* between.
FallibleFns ==
  {"espeak_ng_Initialize", "espeak_ng_InitializeOutput", "SDL_Init",
   "SDL_QueueAudio", "espeak_ng_Synthesize", "espeak_ng_Synchronize"}
AcquisitionFailed(i) ==
  \/ trace[i].fn \in FallibleFns /\ trace[i].ret /= 0
  \/ trace[i].fn = "SDL_OpenAudioDevice" /\ trace[i].ret = NullHandle
Diagnostics == {"espeak_ng_PrintStatusCodeMessage", "SDL_GetError"}
\* the statement that checks the result of the last call is yet to run
CheckPending == pc \in {"check_device", "pause", "check_synth"}
\* the raise is what the trace holds from index i on
RaiseAt(i) ==
  /\ i <= Len(trace) => trace[i].fn \in Diagnostics
  /\ i + 1 <= Len(trace) => trace[i + 1].fn = "throw"
  /\ ~CheckPending => i + 1 <= Len(trace)
C10_RaisedImmediately ==
  \A i \in DOMAIN trace : AcquisitionFailed(i) => RaiseAt(i + 1)
\* C10 as amended: the same, except that the failure of espeak_ng_Synthesize
\* is raised after one call of SDL_PauseAudioDevice.
C10_RaisedImmediatelyButSynthesize ==
  \A i \in DOMAIN trace :
    AcquisitionFailed(i) =>
      IF trace[i].fn = "espeak_ng_Synthesize"
      THEN /\ i + 1 <= Len(trace) => trace[i + 1].fn = "SDL_PauseAudioDevice"
           /\ RaiseAt(i + 2)
      ELSE RaiseAt(i + 1)
C10_Witness ==
  /\ Final
  /\ \E i \in Idx("espeak_ng_Synthesize") :
       /\ trace[i].ret /= ENS_OK
       /\ FnAt(i + 1) = "SDL_PauseAudioDevice"
       /\ FnAt(i + 3) = "throw"
  /\ N("SDL_QueueAudio") > 0

\* C11: every throw is directly preceded by the diagnostic written to
\* stderr; a run in which an acquisition failed ends in std::terminate()
\* (failure status) having thrown; a run in which none failed ends by
\* returning from main() (success status) with no throw and nothing but
\* progress lines on stderr.
StderrFns == {"fprintf"} \cup Diagnostics
IsStderr(e) == e.fn \in StderrFns
SomeAcquisitionFailed == \E i \in DOMAIN trace : AcquisitionFailed(i)
C11_DiagnosticThenFailureStatus ==
  /\ \A i \in Idx("throw") : FnAt(i - 1) \in Diagnostics
  /\ Raised => N("throw") = 1
  /\ (SomeAcquisitionFailed /\ ~CheckPending) => Raised
  /\ (Final /\ SomeAcquisitionFailed) => pc = "terminated"
  /\ (Final /\ ~SomeAcquisitionFailed) =>
       /\ pc = "exited"
       /\ N("throw") = 0
       /\ \A i \in DOMAIN trace : IsStderr(trace[i]) => trace[i].fn = "fprintf"
       /\ N("fprintf") = 8
C11_Witness ==
  /\ pc = "terminated"
  /\ Failed("SDL_QueueAudio")
  /\ FnAt(Len(trace)) = "throw"
  /\ FnAt(Len(trace) - 1) = "SDL_GetError"
  /\ N("fprintf") = 6

\* ====================================================== claims, SpecOwner
HeldNext(s) == to_handle(kind', owners'[s].ptr)

\* C12: converting an owner to the raw handle type yields the handle it was
\* constructed from (or reset to), and keeps yielding it while other owners
\* are operated on; an empty or moved-from owner yields the sentinel.
C12_ConversionYieldsHandle ==
  [][/\ last_op'.op \in {"construct", "reset"}
          => HeldNext(last_op'.slot) = last_op'.given
     /\ last_op'.op = "default" => HeldNext(last_op'.slot) = NullHandle
     /\ (last_op'.op \in {"move_construct", "move_assign"}
           /\ last_op'.slot /= last_op'.src)
          => /\ HeldNext(last_op'.slot) = last_op'.given
             /\ HeldNext(last_op'.src) = NullHandle
     /\ \A s \in Slots :
          (owners[s].live /\ last_op'.slot /= s /\ last_op'.src /= s)
            => /\ owners'[s].live
               /\ HeldNext(s) = Held(s)]_vars
C12_Witness ==
  \E s \in Slots :
    /\ owners[s].live
    /\ Held(s) = MaxHandle
    /\ last_op.op \in {"destroy", "reset", "release"}
    /\ last_op.slot /= s

\* ========================================================= boni::nullable
\* SpecNullable : a nullable<handle_type, null_value> is constructed in each
\* of its three ways and asked for its conversions and comparisons.
Values == 0..MaxValue

\* what a nullable obj of sentinel nv, made by `how` from `given`, answers
\* when converted and when compared with the null marker and with right
Asked(nv, how, given, obj, right) ==
  [null_value |-> nv, how |-> how, given |-> given, obj |-> obj,
   right |-> right,
   as_bool |-> nullable_bool(obj, nv),
   as_handle |-> nullable_handle(obj),
   eq_null |-> nullable_eq(obj, nullable_nullptr(nv)),
   ne_null |-> nullable_ne(obj, nullable_nullptr(nv)),
   eq_right |-> nullable_eq(obj, right),
   ne_right |-> nullable_ne(obj, right)]

\* the operand of the comparisons: the one chosen last, at first a
\* default-constructed nullable
NullableRight ==
  IF nb.how = "none" THEN nullable_default(nb.null_value) ELSE nb.right

InitNullable ==
  /\ OwnerIdle
  /\ DemoIdle
  /\ CallbackIdle
  /\ \E nv \in Values : nb = [null_value |-> nv, how |-> "none"]

\* nullable n;
NullableDefault ==
  /\ nb' = Asked(nb.null_value, "default", nb.null_value,
                 nullable_default(nb.null_value), NullableRight)
  /\ UNCHANGED <<cb>>
  /\ UNCHANGED owner_vars
  /\ UNCHANGED demo_vars

\* nullable n{nullptr};
NullableFromNullptr ==
  /\ nb' = Asked(nb.null_value, "nullptr", nb.null_value,
                 nullable_nullptr(nb.null_value), NullableRight)
  /\ UNCHANGED <<cb>>
  /\ UNCHANGED owner_vars
  /\ UNCHANGED demo_vars

\* nullable n{v};
NullableFromValue(v) ==
  /\ nb' = Asked(nb.null_value, "value", v, nullable_from(v), NullableRight)
  /\ UNCHANGED <<cb>>
  /\ UNCHANGED owner_vars
  /\ UNCHANGED demo_vars

\* n == nullable{w}, n != nullable{w}
NullableCompare(w) ==
  /\ nb.how /= "none"
  /\ nb' = Asked(nb.null_value, nb.how, nb.given, nb.obj, nullable_from(w))
  /\ UNCHANGED <<cb>>
  /\ UNCHANGED owner_vars
  /\ UNCHANGED demo_vars

NextNullable ==
  \/ NullableDefault
  \/ NullableFromNullptr
  \/ \E v \in Values : NullableFromValue(v)
  \/ \E w \in Values : NullableCompare(w)

SpecNullable == InitNullable /\ [][NextNullable]_vars

\* C13: a nullable converts to false exactly when it stores the sentinel,
\* and exactly then equals the null marker; one made by default or from the
\* null marker is such, and one made from v stores v.
C13_NullableState ==
  nb.how /= "none" =>
  /\ nb.as_bool = (nb.obj.value /= nb.null_value)
  /\ nb.eq_null = ~nb.as_bool
  /\ nb.ne_null = nb.as_bool
  /\ nb.how \in {"default", "nullptr"} => (~nb.as_bool /\ nb.eq_null)
  /\ nb.how = "value" => (nb.obj.value = nb.given /\ nb.as_handle = nb.given)
  /\ nb.eq_right = (nb.as_handle = nb.right.value)
  /\ nb.ne_right = ~nb.eq_right
C13_Witness ==
  /\ nb.how = "value"
  /\ nb.null_value = MaxValue
  /\ nb.given = NullHandle
  /\ nb.as_bool
  /\ ~nb.eq_null

\* ======================================================= claims, SpecDemo
Before(fn, i) == {j \in Idx(fn) : j < i}

\* C14: espeak_ng_Synthesize is entered, and audio queued by the callback,
\* only after espeak_ng_Initialize, espeak_ng_InitializeOutput and SDL_Init
\* succeeded, SDL_OpenAudioDevice returned a device that main's owner holds
\* and the callback was registered; espeak_ng_Synchronize is called only
\* after espeak_ng_Synthesize returned.
C14_SynthesisAfterSetup ==
  /\ \A i \in Idx("espeak_ng_Synthesize:enter") :
       /\ \E j \in Before("espeak_ng_Initialize", i) : trace[j].ret = ENS_OK
       /\ \E j \in Before("espeak_ng_InitializeOutput", i) :
            trace[j].ret = ENS_OK
       /\ \E j \in Before("SDL_Init", i) : trace[j].ret = 0
       /\ \E j \in Before("SDL_OpenAudioDevice", i) :
            /\ trace[j].ret /= NullHandle
            /\ pc \in {"synthesizing", "pause", "check_synth", "synchronize",
                       "delay"}
                 => to_handle(K, audio_device) = trace[j].ret
       /\ Before("espeak_SetSynthCallback", i) /= {}
  /\ \A q \in Idx("SDL_QueueAudio") :
       /\ Before("espeak_ng_Synthesize:enter", q) /= {}
       /\ Before("espeak_ng_Synthesize", q) = {}
       /\ \E j \in Before("SDL_OpenAudioDevice", q) :
            trace[j].ret /= NullHandle /\ trace[q].arg = trace[j].ret
  /\ \A k \in Idx("espeak_ng_Synchronize") :
       Before("espeak_ng_Synthesize", k) /= {}
C14_Witness ==
  /\ pc = "delay"
  /\ N("SDL_QueueAudio") = MaxCallbacks
  /\ N("espeak_ng_Synchronize") = 1
  /\ to_handle(K, audio_device) = MaxDevice

\* ========================================================== SynthCallback
\* SpecCallback : SynthCallback is called once with arguments of every kind:
\* wav null or not, numsamples within the buffer espeak hands over, an event
\* array whose entries need not share their user_data and that may go on
\* behind its first terminator, and either result of SDL_QueueAudio.
UserDatas == {0, AudioDeviceAddress}
CallbackEventLists ==
  LET real == [type : EventTypes, user_data : UserDatas]
      term == [type : {espeakEVENT_LIST_TERMINATED}, user_data : UserDatas]
      pres == UNION {[1..n -> real] : n \in 0..MaxEvents}
      posts == {<<>>} \cup {<<t>> : t \in term}
  IN {pre \o <<t>> \o post : pre \in pres, t \in term, post \in posts}

\* one call: the library calls it made, and whether and what it returned
SynthCallbackResult(wav, numsamples, events, device, queue_result) ==
  LET made == SynthCallback(wav, numsamples, events, device, queue_result)
  IN [applied |-> TRUE, wav |-> wav, numsamples |-> numsamples,
      events |-> events, device |-> device, queue_result |-> queue_result,
      made |-> made,
      returned |-> ~Throws(made),
      value |-> SynthCallbackReturnValue]

InitCallback ==
  /\ OwnerIdle
  /\ DemoIdle
  /\ NullableIdle
  /\ CallbackIdle

CallbackApply ==
  /\ ~cb.applied
  /\ \E wav \in 0..1, numsamples \in 0..MaxSamples,
        events \in CallbackEventLists, device \in DeviceIds,
        r \in SdlResults :
       cb' = SynthCallbackResult(wav, numsamples, events, device, r)
  /\ UNCHANGED <<nb>>
  /\ UNCHANGED owner_vars
  /\ UNCHANGED demo_vars

NextCallback == CallbackApply

SpecCallback == InitCallback /\ [][NextCallback]_vars

\* C15: the callback takes user_data from the first terminator entry; it
\* calls SDL_QueueAudio, once and with 2*numsamples bytes, exactly when wav
\* and user_data are non-null and numsamples is non-zero; it throws exactly
\* when that call fails, and returns 0 otherwise.
FirstTerminator(events) ==
  CHOOSE i \in DOMAIN events :
    /\ events[i].type = espeakEVENT_LIST_TERMINATED
    /\ \A j \in 1..(i - 1) : events[j].type /= espeakEVENT_LIST_TERMINATED
ShouldQueue ==
  /\ cb.wav /= 0
  /\ cb.numsamples /= 0
  /\ cb.events[FirstTerminator(cb.events)].user_data /= 0
QueueCalls == {i \in DOMAIN cb.made : cb.made[i].fn = "SDL_QueueAudio"}
C15_CallbackQueuesOnce ==
  cb.applied =>
    /\ ShouldQueue =>
         /\ QueueCalls = {1}
         /\ cb.made[1].len = 2 * cb.numsamples
         /\ cb.made[1].arg = cb.device
         /\ cb.made[1].ret = cb.queue_result
    /\ ~ShouldQueue => cb.made = <<>>
    /\ cb.returned = ~(ShouldQueue /\ cb.queue_result /= 0)
    /\ cb.returned => cb.value = 0
    /\ ~cb.returned => cb.made[Len(cb.made)].fn = "throw"
C15_Witness ==
  /\ cb.applied
  /\ ShouldQueue
  /\ cb.returned
  /\ cb.events[1].type /= espeakEVENT_LIST_TERMINATED
  /\ cb.events[1].user_data = 0
  /\ cb.numsamples = MaxSamples

\* ======================================================= claims, SpecDemo
\* C16: every operation on the audio device lies between a successful
\* SDL_Init and SDL_Quit, and every speech-engine operation between a
\* successful espeak_ng_Initialize and espeak_ng_Terminate.
AudioOps ==
  {"SDL_OpenAudioDevice", "SDL_QueueAudio", "SDL_PauseAudioDevice",
   "SDL_CloseAudioDevice"}
SpeechOps ==
  {"espeak_ng_InitializeOutput", "espeak_ng_GetSampleRate",
   "espeak_SetSynthCallback", "espeak_ng_Synthesize:enter",
   "espeak_ng_Synthesize", "espeak_ng_Synchronize"}
C16_LibrariesUsedWhileInitialized ==
  \A i \in DOMAIN trace :
    /\ trace[i].fn \in AudioOps =>
         /\ \E j \in Before("SDL_Init", i) : trace[j].ret = 0
         /\ Before("SDL_Quit", i) = {}
    /\ trace[i].fn \in SpeechOps =>
         /\ \E j \in Before("espeak_ng_Initialize", i) : trace[j].ret = ENS_OK
         /\ Before("espeak_ng_Terminate", i) = {}
C16_Witness ==
  /\ pc = "exited"
  /\ N("SDL_QueueAudio") > 0
  /\ N("SDL_PauseAudioDevice") = 1
  /\ N("espeak_ng_Synchronize") = 1
  /\ N("SDL_Quit") = 1
  /\ N("espeak_ng_Terminate") = 1

====
